---- MODULE Spec2Model ----
(***************************************************************************)
(* A model of scripts/00_bidsify_tuab.ipynb: the TUAB corpus is indexed    *)
(* (TUH / TUHAbnormal), given dense subject codes (run_tuab_bidsification) *)
(* and converted recording by recording (convert_tuab_to_bids,             *)
(* _convert_tuh_recording_to_bids), and of the helper rename_tuh_channels. *)
(*                                                                         *)
(* Strings the code inspects character by character (paths, channel       *)
(* names) are sequences of "pieces"; PieceChars gives the characters of a  *)
(* piece, and the regular expression and the str.replace calls work on the *)
(* characters.                                                             *)
(***************************************************************************)
EXTENDS Integers, Sequences, FiniteSets, TLC

VARIABLES
    files,          \* the *.edf files of the source tree, in glob order
    pc,             \* position of the run
    recording_ids,  \* the recording_ids argument of TUH.__init__
    index,          \* descriptions: the sorted index built in TUH.__init__
    datasets,       \* concat_ds.datasets: the description of each dataset
    opts,           \* the keyword arguments of convert_tuab_to_bids
    description,    \* the local table `description` of convert_tuab_to_bids
    df_info,        \* the rows collected by convert_tuab_to_bids
    written,        \* what write_raw_bids was called with, in call order
    csv,            \* participants_extra.csv: NoCsv or the persisted rows
    err,            \* the exception that ended the run, or NoError
    ch_name,        \* rename_tuh_channels: the argument
    ch_out,         \* rename_tuh_channels: the returned name, or NotRenamed
    subjects,       \* the Series `subjects` of the processing notebook
    cells,          \* the dispatch cells that are run in this session
    dispatched,     \* the dispatch cells that have been run
    tasks,          \* the tasks submitted to the dask cluster
    outputs         \* the files the tasks have written

vars == <<files, pc, recording_ids, index, datasets, opts, description,
          df_info, written, csv, err, ch_name, ch_out,
          subjects, cells, dispatched, tasks, outputs>>

flow_vars == <<files, pc, recording_ids, index, datasets, opts, description,
               df_info, written, csv, err>>

rename_vars == <<ch_name, ch_out>>

pipeline_vars == <<subjects, cells, dispatched, tasks, outputs>>

-----------------------------------------------------------------------------
(* Bounds of the model.                                                    *)

MaxFiles == 3       \* files of a corpus (Spec, SpecIndex)
MaxSubsetFiles == 3 \* files of a corpus (SpecSubset)
MaxPathPieces == 4  \* pieces of the reference directory of a path (SpecRef)
MaxNamePieces == 3  \* pieces of a channel name (SpecRename)
MaxAge == 8         \* ages 0..MaxAge of the header (SpecBirthday)
MaxScatterTasks == 2 \* tasks on the cluster (SpecScatter)
MaxHeaderPieces == 5 \* pieces of a patient identification (SpecSex)

-----------------------------------------------------------------------------
(* Sequences.                                                              *)

Range(s) == {s[i] : i \in 1..Len(s)}

Last(s) == s[Len(s)]

RECURSIVE Flatten(_)
Flatten(ss) ==
    IF ss = <<>> THEN <<>> ELSE Head(ss) \o Flatten(Tail(ss))

\* All sequences over S of length lo..hi.
SeqsOf(S, lo, hi) == UNION {[1..n -> S] : n \in lo..hi}

\* All sequences over S of length lo..hi without a repeated element.
DistinctSeqsOf(S, lo, hi) ==
    {s \in SeqsOf(S, lo, hi) : \A i, j \in 1..Len(s) : s[i] = s[j] => i = j}

-----------------------------------------------------------------------------
(* Python values whose type varies: description['segment'] is an int from  *)
(* the file name and the str '001' after convert_tuab_to_bids.             *)

PyInt(n) == [int |-> n]

PyStr(chars) == [str |-> chars]

\* str(n) for n >= 0: the decimal digits, as characters.
DigitChar == <<"0", "1", "2", "3", "4", "5", "6", "7", "8", "9">>

RECURSIVE StrOfNat(_)
StrOfNat(n) ==
    IF n < 10 THEN <<DigitChar[n + 1]>>
    ELSE StrOfNat(n \div 10) \o <<DigitChar[(n % 10) + 1]>>

\* str.zfill(width): pad on the left with '0', never cut.
RECURSIVE Zfill(_, _)
Zfill(chars, width) ==
    IF Len(chars) >= width THEN chars ELSE Zfill(<<"0">> \o chars, width)

\* int(s) for a string of decimal digits.
DigitValue(c) == CHOOSE d \in 0..9 : DigitChar[d + 1] = c

RECURSIVE IntOfStr(_)
IntOfStr(chars) ==
    IF Len(chars) = 1 THEN DigitValue(chars[1])
    ELSE 10 * IntOfStr(SubSeq(chars, 1, Len(chars) - 1))
         + DigitValue(Last(chars))

-----------------------------------------------------------------------------
(* Characters.  A piece is a string the model never looks into except      *)
(* through PieceChars.                                                     *)

PieceChars ==
    [p \in {"train", "eval", "normal", "abnormal", "/", "_",
            "01_tcp_ar", "01_tcp_le", "01_tcp_xx",
            "_tcp_", "ar", "le", "xx",
            "EEG ", "EEG", "-REF", "FP", "Z", "LOC", "EKG1", "ROC",
            "E", "EG ", "C", "1", " "} |->
        CASE p = "train"    -> <<"t", "r", "a", "i", "n">>
          [] p = "eval"     -> <<"e", "v", "a", "l">>
          [] p = "normal"   -> <<"n", "o", "r", "m", "a", "l">>
          [] p = "abnormal" -> <<"a", "b", "n", "o", "r", "m", "a", "l">>
          [] p = "/"        -> <<"/">>
          [] p = "_"        -> <<"_">>
          [] p = "01_tcp_ar" -> <<"0", "1", "_", "t", "c", "p", "_", "a", "r">>
          [] p = "01_tcp_le" -> <<"0", "1", "_", "t", "c", "p", "_", "l", "e">>
          [] p = "01_tcp_xx" -> <<"0", "1", "_", "t", "c", "p", "_", "x", "x">>
          [] p = "_tcp_"    -> <<"_", "t", "c", "p", "_">>
          [] p = "ar"       -> <<"a", "r">>
          [] p = "le"       -> <<"l", "e">>
          [] p = "xx"       -> <<"x", "x">>
          [] p = "EEG "     -> <<"E", "E", "G", " ">>
          [] p = "EEG"      -> <<"E", "E", "G">>
          [] p = "-REF"     -> <<"-", "R", "E", "F">>
          [] p = "FP"       -> <<"F", "P">>
          [] p = "Z"        -> <<"Z">>
          [] p = "LOC"      -> <<"L", "O", "C">>
          [] p = "EKG1"     -> <<"E", "K", "G", "1">>
          [] p = "ROC"      -> <<"R", "O", "C">>
          [] p = "E"        -> <<"E">>
          [] p = "EG "      -> <<"E", "G", " ">>
          [] p = "C"        -> <<"C">>
          [] p = "1"        -> <<"1">>
          [] p = " "        -> <<" ">>]

\* The characters of a sequence of pieces.
CharsOf(pieces) == Flatten([i \in 1..Len(pieces) |-> PieceChars[pieces[i]]])

\* The characters of the model, in ASCII order.
AsciiOrder ==
    <<" ", "-", ".", "/",
      "0", "1", "2", "3", "4", "5", "6", "7", "8", "9",
      "A", "C", "E", "F", "G", "K", "L", "O", "P", "R", "Z",
      "_",
      "a", "b", "c", "d", "e", "f", "i", "l", "m", "n", "o", "p", "r", "s",
      "t", "v", "x", "z">>

Ord(c) == CHOOSE i \in 1..Len(AsciiOrder) : AsciiOrder[i] = c

\* \w of the re module, on the characters of the model.
IsWordChar(c) == c \notin {" ", "-", ".", "/"}

\* s < t for Python str: lexicographic by character code.
RECURSIVE StrLess(_, _)
StrLess(s, t) ==
    IF t = <<>> THEN FALSE
    ELSE IF s = <<>> THEN TRUE
    ELSE IF Head(s) # Head(t) THEN Ord(Head(s)) < Ord(Head(t))
    ELSE StrLess(Tail(s), Tail(t))

\* True when s holds sub at position i.
MatchAt(s, sub, i) ==
    /\ i + Len(sub) - 1 <= Len(s)
    /\ \A j \in 1..Len(sub) : s[i + j - 1] = sub[j]

\* `sub in s` for Python str.
Contains(s, sub) == \E i \in 1..(Len(s) + 1) : MatchAt(s, sub, i)

\* s.replace(old, new) for Python str and a non-empty old: the occurrences
\* of old, found left to right without overlap, become new.
RECURSIVE ReplaceFrom(_, _, _, _)
ReplaceFrom(s, old, new, i) ==
    IF i > Len(s) THEN <<>>
    ELSE IF MatchAt(s, old, i)
         THEN new \o ReplaceFrom(s, old, new, i + Len(old))
         ELSE <<s[i]>> \o ReplaceFrom(s, old, new, i + 1)

Replace(s, old, new) == ReplaceFrom(s, old, new, 1)

\* s.split(sep) for Python str and a one-character sep.
RECURSIVE Split(_, _)
Split(s, sep) ==
    IF \A i \in 1..Len(s) : s[i] # sep THEN <<s>>
    ELSE LET i == CHOOSE k \in 1..Len(s) :
                      s[k] = sep /\ \A j \in 1..(k - 1) : s[j] # sep
         IN  <<SubSeq(s, 1, i - 1)>> \o Split(SubSeq(s, i + 1, Len(s)), sep)

\* sep.join(parts) for Python str.
RECURSIVE Join(_, _)
Join(parts, sep) ==
    IF parts = <<>> THEN <<>>
    ELSE IF Len(parts) = 1 THEN parts[1]
    ELSE parts[1] \o sep \o Join(Tail(parts), sep)

-----------------------------------------------------------------------------
(* The source tree.  A file is its path (the pieces of its directory and   *)
(* the '_'-separated parts of its name) and what its EDF header holds.     *)

NoError == [type |-> "none", in |-> "none"]

Error(type, in) == [type |-> type, in |-> in]

None == [none |-> TRUE]

\* The name of a file, e.g. aaaaaaav_s004_t000.edf.
FileName(path) == Join(path.stem, <<"_">>) \o <<".", "e", "d", "f">>

\* The components of a path that are not empty.
RECURSIVE NonEmpty(_)
NonEmpty(parts) ==
    IF parts = <<>> THEN <<>>
    ELSE (IF Head(parts) = <<>> THEN <<>> ELSE <<Head(parts)>>)
         \o NonEmpty(Tail(parts))

\* os.path.normpath, for the relative paths of the model, which hold no
\* '.' or '..' component: repeated separators become one.
NormPath(chars) == Join(NonEmpty(Split(chars, "/")), <<"/">>)

\* The path as the str the code sees, after os.path.normpath.
PathChars(path) ==
    NormPath(CharsOf(path.dir) \o <<"/">> \o FileName(path))

\* The session and segment parts of a file name: s004, t000.
NumberedPart(letter, n) == <<letter>> \o Zfill(StrOfNat(n), 3)

Stem(subject, session, segment) ==
    <<subject, NumberedPart("s", session), NumberedPart("t", segment)>>

\* Ok(v) and Raise(e): a returned value or a raised exception.
Ok(v) == [ok |-> TRUE, value |-> v, err |-> NoError]

Raise(e) == [ok |-> FALSE, value |-> None, err |-> e]

\* _parse_description_from_file_path, for a file of the source tree.  The
\* date is the meas_date of the header; the three-way unpacking of
\* fname.split('_') raises ValueError for any other number of parts.
DescriptionOfParts(file, parts) ==
    IF Len(parts) # 3
    THEN Raise(Error("ValueError", "_parse_description_from_file_path"))
    ELSE Ok([path    |-> file.path,
             version |-> "V3.0",
             year    |-> file.date[1],
             month   |-> file.date[2],
             day     |-> file.date[3],
             subject |-> parts[1],
             session |-> IntOfStr(Tail(parts[2])),
             segment |-> PyInt(IntOfStr(Tail(parts[3])))])

ParseDescriptionFromFilePath(file) ==
    DescriptionOfParts(
        file,
        Split(Replace(Last(Split(PathChars(file.path), "/")),
                      <<".", "e", "d", "f">>, <<>>),
              "_"))

\* The sort key of sort_values: subject, session, segment, year, month, day.
KeyLess(a, b) ==
    IF a.subject # b.subject THEN StrLess(a.subject, b.subject)
    ELSE IF a.session # b.session THEN a.session < b.session
    ELSE IF a.segment.int # b.segment.int THEN a.segment.int < b.segment.int
    ELSE IF a.year # b.year THEN a.year < b.year
    ELSE IF a.month # b.month THEN a.month < b.month
    ELSE a.day < b.day

\* Insert d after every row that is not greater than it.
RECURSIVE InsertSorted(_, _)
InsertSorted(sorted, d) ==
    IF sorted = <<>> THEN <<d>>
    ELSE IF KeyLess(d, Head(sorted)) THEN <<d>> \o sorted
    ELSE <<Head(sorted)>> \o InsertSorted(Tail(sorted), d)

\* descriptions.sort_values([...], axis=1): pandas sorts on several keys
\* with a stable sort, so rows that tie on the whole key keep the order they
\* had in the input.
RECURSIVE SortValues(_)
SortValues(descriptions) ==
    IF descriptions = <<>> THEN <<>>
    ELSE InsertSorted(
             SortValues(SubSeq(descriptions, 1, Len(descriptions) - 1)),
             Last(descriptions))

\* The loop of _create_chronological_description: the first file whose name
\* does not parse raises, and ends the loop.
ParsedAll(file_paths) ==
    [i \in 1..Len(file_paths) |-> ParseDescriptionFromFilePath(file_paths[i])]

\* _create_chronological_description.  pd.concat raises ValueError for an
\* empty list.
\* The first result that is an exception.
FirstRaised(results) ==
    results[CHOOSE k \in 1..Len(results) :
                ~results[k].ok /\ \A j \in 1..(k - 1) : results[j].ok]

AnyRaised(results) == \E i \in 1..Len(results) : ~results[i].ok

Values(results) == [i \in 1..Len(results) |-> results[i].value]

ChronologicalDescriptionOf(parsed) ==
    IF AnyRaised(parsed) THEN Raise(FirstRaised(parsed).err)
    ELSE IF parsed = <<>>
    THEN Raise(Error("ValueError", "_create_chronological_description"))
    ELSE Ok(SortValues(Values(parsed)))

CreateChronologicalDescription(file_paths) ==
    ChronologicalDescriptionOf(ParsedAll(file_paths))

\* A selection that keeps as many rows as recording_ids names, from the
\* start of the index.
SelectFirstRows(descriptions, ids) ==
    IF ids = None THEN descriptions
    ELSE SubSeq(descriptions, 1, Len(ids.list))

\* descriptions[recording_ids]: the columns with the labels recording_ids,
\* in the order of recording_ids; every column for recording_ids=None.
SelectRecordingIds(descriptions, ids) ==
    IF ids = None THEN descriptions
    ELSE [i \in 1..Len(ids.list) |-> descriptions[ids.list[i] + 1]]

\* The file a path names.
FileAt(fs, path) == CHOOSE f \in Range(fs) : f.path = path

\* re.findall(r"Age:(\d+)", patient_id), for a patient_id whose ages are
\* the pieces "Age:34".
FindAllAge(patient_id) ==
    [k \in 1..Cardinality({i \in 1..Len(patient_id) :
                              patient_id[i] = "Age:34"}) |-> 34]

\* re.findall(r"\s([F|M])\s", patient_id) from position p on: the matches
\* from left to right, a match starting after the end of the one before.
\* The class [F|M] holds the three characters F, | and M.
RECURSIVE FindAllGenderFrom(_, _)
FindAllGenderFrom(patient_id, p) ==
    IF p + 2 > Len(patient_id) THEN <<>>
    ELSE IF /\ patient_id[p] = " "
            /\ patient_id[p + 1] \in {"F", "|", "M"}
            /\ patient_id[p + 2] = " "
         THEN <<patient_id[p + 1]>> \o FindAllGenderFrom(patient_id, p + 3)
         ELSE FindAllGenderFrom(patient_id, p + 1)

\* _parse_age_and_gender_from_edf_header, from the patient identification
\* of the header on.
ParseAgeAndGenderFromEdfHeader(patient_id) ==
    LET found_age    == FindAllAge(patient_id)
        found_gender == FindAllGenderFrom(patient_id, 1)
    IN  [age    |-> IF Len(found_age) = 1 THEN found_age[1] ELSE -1,
         gender |-> IF Len(found_gender) = 1 THEN found_gender[1] ELSE "X"]

\* TUH._create_dataset: the description of the dataset, with the age and
\* gender found in the header.
DatasetOf(d, file) ==
    [path |-> d.path, version |-> d.version,
     year |-> d.year, month |-> d.month, day |-> d.day,
     subject |-> d.subject, session |-> d.session, segment |-> d.segment,
     age |-> file.age, gender |-> file.gender]

CreateDataset(fs, d) == DatasetOf(d, FileAt(fs, d.path))

\* A membership test that is satisfied by a token that holds the label
\* somewhere in it.
HasTokenSubstring(tokens, piece) ==
    \E i \in 1..Len(tokens) : Contains(tokens[i], PieceChars[piece])

\* TUHAbnormal._parse_additional_description_from_file_path.
HasToken(tokens, piece) ==
    \E i \in 1..Len(tokens) : tokens[i] = PieceChars[piece]

AdditionalDescriptionOf(tokens) ==
    IF ~(HasToken(tokens, "abnormal") \/ HasToken(tokens, "normal"))
    THEN Raise(Error("AssertionError", "No pathology labels found."))
    ELSE IF ~(HasToken(tokens, "train") \/ HasToken(tokens, "eval"))
    THEN Raise(Error("AssertionError",
                     "No train or eval set information found."))
    ELSE Ok([version |-> "V3.0",
             train |-> HasToken(tokens, "train"),
             pathological |-> HasToken(tokens, "abnormal")])

ParseAdditionalDescriptionFromFilePath(path) ==
    AdditionalDescriptionOf(Split(PathChars(path), "/"))

-----------------------------------------------------------------------------
(* TUH.__init__ and TUHAbnormal.__init__.                                  *)

\* TUH.__init__: the index, the rows recording_ids selects, one dataset per
\* selected row, in the order of the rows (joblib.Parallel returns the
\* results in the order of its input).
BaseDatasets(file_paths, selected) ==
    [i \in 1..Len(selected) |-> CreateDataset(file_paths, selected[i])]

TUHInitOf(file_paths, ids, made) ==
    IF ~made.ok THEN Raise(made.err)
    ELSE Ok([descriptions |-> made.value,
             base_datasets |->
                 BaseDatasets(file_paths,
                              SelectRecordingIds(made.value, ids))])

TUHInit(file_paths, ids) ==
    TUHInitOf(file_paths, ids, CreateChronologicalDescription(file_paths))

\* set_description(additional_descriptions, overwrite=True) of
\* TUHAbnormal.__init__, for one dataset.
WithAdditionalDescription(d, more) ==
    [path |-> d.path, version |-> more.version,
     year |-> d.year, month |-> d.month, day |-> d.day,
     subject |-> d.subject, session |-> d.session, segment |-> d.segment,
     age |-> d.age, gender |-> d.gender,
     train |-> more.train, pathological |-> more.pathological]

AdditionalDescriptions(base) ==
    [i \in 1..Len(base) |->
        ParseAdditionalDescriptionFromFilePath(base[i].path)]

WithAdditionalDescriptions(descriptions, base, more) ==
    IF AnyRaised(more) THEN Raise(FirstRaised(more).err)
    ELSE Ok([descriptions |-> descriptions,
             datasets |-> [i \in 1..Len(base) |->
                              WithAdditionalDescription(base[i],
                                                        more[i].value)]])

TUHAbnormalOf(made) ==
    IF ~made.ok THEN Raise(made.err)
    ELSE WithAdditionalDescriptions(
             made.value.descriptions, made.value.base_datasets,
             AdditionalDescriptions(made.value.base_datasets))

\* TUHAbnormal(path, recording_ids=ids) for the files glob finds under
\* path: the index and the datasets, or the exception.
TUHAbnormal(file_paths, ids) == TUHAbnormalOf(TUHInit(file_paths, ids))

\* Parallel(n_jobs)(delayed(f)(x) for x in xs): the calls complete in any
\* order, and the result of the i-th call is the i-th of the list returned.
Parallel(results, order) ==
    LET completed == [k \in 1..Len(order) |->
                         [index |-> order[k], result |-> results[order[k]]]]
    IN  [i \in 1..Len(results) |->
            (CHOOSE c \in Range(completed) : c.index = i).result]

Constructed(ids, made) ==
    /\ recording_ids' = ids
    /\ pc' = IF made.ok THEN "constructed" ELSE "failed"
    /\ err' = made.err
    /\ index' = IF made.ok THEN made.value.descriptions ELSE index
    /\ datasets' = IF made.ok THEN made.value.datasets ELSE datasets

TUHAbnormalInit(ids) ==
    /\ pc = "start"
    /\ Constructed(ids, TUHAbnormal(files, ids))
    /\ UNCHANGED <<files, opts, description, df_info, written, csv>>
    /\ UNCHANGED rename_vars
    /\ UNCHANGED pipeline_vars

\* TUHAbnormal(path, n_jobs=-1): the datasets are created by the workers of
\* joblib, which complete in any order.
LoadParallel ==
    /\ pc = "start"
    /\ LET made == TUHInit(files, None)
           n    == IF made.ok THEN Len(made.value.base_datasets) ELSE 0
       IN  \E order \in DistinctSeqsOf(1..n, n, n) :
               Constructed(None,
                   TUHAbnormalOf(
                       IF made.ok
                       THEN Ok([made.value EXCEPT
                                   !.base_datasets = Parallel(@, order)])
                       ELSE made))
    /\ UNCHANGED <<files, opts, description, df_info, written, csv>>
    /\ UNCHANGED rename_vars
    /\ UNCHANGED pipeline_vars

-----------------------------------------------------------------------------
(* run_tuab_bidsification: the dense subject codes.                        *)

\* Codes that do not tell the subjects apart.
CatCodesConstant(values) == [i \in 1..Len(values) |-> 0]

\* Series.astype('category').cat.codes: the rank of each value among the
\* distinct values, which pandas sorts.
CatCodes(values) ==
    [i \in 1..Len(values) |->
        Cardinality({v \in Range(values) : StrLess(v, values[i])})]

WithSubjectCode(d, code) ==
    [path |-> d.path, version |-> d.version,
     year |-> d.year, month |-> d.month, day |-> d.day,
     subject |-> code, subject_orig |-> d.subject,
     session |-> d.session, segment |-> d.segment,
     age |-> d.age, gender |-> d.gender,
     train |-> d.train, pathological |-> d.pathological]

\* Lines 405-407 of run_tuab_bidsification.
SetSubjectCodes ==
    /\ pc = "constructed"
    /\ LET codes == CatCodes([i \in 1..Len(datasets) |->
                                 datasets[i].subject])
       IN  datasets' = [i \in 1..Len(datasets) |->
                           WithSubjectCode(datasets[i], codes[i])]
    /\ pc' = "coded"
    /\ UNCHANGED <<files, recording_ids, index, opts, description, df_info,
                   written, csv, err>>
    /\ UNCHANGED rename_vars
    /\ UNCHANGED pipeline_vars

-----------------------------------------------------------------------------
(* _convert_tuh_recording_to_bids.                                         *)

\* re.findall(r'\_tcp\_(\w\w)', s): the groups of the matches found left to
\* right, each search starting where the match before it ended.
RECURSIVE FindAllTcpFrom(_, _)
FindAllTcpFrom(s, i) ==
    IF i > Len(s) THEN <<>>
    ELSE IF /\ MatchAt(s, <<"_", "t", "c", "p", "_">>, i)
            /\ i + 6 <= Len(s)
            /\ IsWordChar(s[i + 5])
            /\ IsWordChar(s[i + 6])
         THEN <<SubSeq(s, i + 5, i + 6)>> \o FindAllTcpFrom(s, i + 7)
         ELSE FindAllTcpFrom(s, i + 1)

FindAllTcp(s) == FindAllTcpFrom(s, 1)

\* A check of the reference that takes the first match and does not count
\* the matches.
ExtractFirstReference(path) ==
    LET ref == FindAllTcp(PathChars(path))
    IN  IF Len(ref) = 0
        THEN Raise(Error("ValueError",
                         "Expecting one directory level with tcp in it."))
        ELSE IF ref[1] \in {<<"a", "r">>, <<"l", "e">>} THEN Ok("")
        ELSE Raise(Error("ValueError",
                         "Unknown reference found in file name"))

\* Lines 305-313: the reference of the recording, or the ValueError.
ExtractReference(path) ==
    LET ref == FindAllTcp(PathChars(path))
    IN  IF Len(ref) # 1
        THEN Raise(Error("ValueError",
                         "Expecting one directory level with tcp in it."))
        ELSE IF ref[1] = <<"a", "r">> THEN Ok("")
        ELSE IF ref[1] = <<"l", "e">> THEN Ok("")
        ELSE Raise(Error("ValueError",
                         "Unknown reference found in file name"))

\* The days of a month of the proleptic Gregorian calendar.
IsLeap(year) == (year % 4 = 0 /\ year % 100 # 0) \/ year % 400 = 0

DaysInMonth(year, month) ==
    IF month = 2 THEN (IF IsLeap(year) THEN 29 ELSE 28)
    ELSE IF month \in {4, 6, 9, 11} THEN 30
    ELSE 31

\* A birthday four weeks after the first of the month.
FourWeeksAfterFirst(year, month) ==
    IF DaysInMonth(year, month) >= 29 THEN <<year, month, 29>>
    ELSE <<year, month + 1, 1>>

\* datetime.datetime(year, month, 1) - datetime.timedelta(weeks=4), as
\* (year, month, day): 28 days before the first of a month is in the month
\* before it.
FourWeeksBeforeFirst(year, month) ==
    LET py == IF month = 1 THEN year - 1 ELSE year
        pm == IF month = 1 THEN 12 ELSE month - 1
    IN  <<py, pm, DaysInMonth(py, pm) - 27>>

\* SEX_TO_MNE.
SEX_TO_MNE == [k \in {"n/a", "m", "f"} |->
                  CASE k = "n/a" -> 0 [] k = "m" -> 1 [] k = "f" -> 2]

\* str.lower() on the gender codes of the header.
Lower(gender) ==
    CASE gender = "M" -> "m" [] gender = "F" -> "f" [] gender = "X" -> "x"
      [] gender = "|" -> "|"

\* The BIDSPath of a recording: run is desc['segment'] as it is.
BidsPathOf(desc) ==
    [subject |-> Zfill(StrOfNat(desc.subject), 4),
     session |-> Zfill(StrOfNat(desc.session), 3),
     task    |-> "rest",
     run     |-> desc.segment]

\* _convert_tuh_recording_to_bids(ds, bids_save_dir, desc): the row it
\* returns and the BIDSPath it writes to, or the exception it raises; it
\* raises before write_raw_bids or not at all.  The channels of the raw
\* data are not part of the model.
ConvertTuhRecordingToBids(desc) ==
    LET reference == ExtractReference(desc.path)
        birthday  == FourWeeksBeforeFirst(desc.year - desc.age, desc.month)
        sex       == Lower(desc.gender)
    IN  IF ~reference.ok THEN Raise(reference.err)
        ELSE IF sex \notin DOMAIN SEX_TO_MNE
        THEN Raise(Error("KeyError", "SEX_TO_MNE"))
        ELSE Ok([bids_path |-> BidsPathOf(desc),
                 info |->
                     [participant_id |-> Zfill(StrOfNat(desc.subject), 4),
                      subject        |-> desc.subject_orig,
                      birthday       |-> birthday,
                      sex            |-> SEX_TO_MNE[sex],
                      train          |-> desc.train,
                      pathological   |-> desc.pathological,
                      handedness     |-> None,
                      meas_date      |-> <<desc.year, desc.month, desc.day>>,
                      session        |-> desc.session]])

-----------------------------------------------------------------------------
(* convert_tuab_to_bids.                                                   *)

NoCsv == [none |-> TRUE]

NoOpts == [none |-> TRUE]

\* The rows of s at the positions in keep, in the order of s.
RECURSIVE RowsAt(_, _, _)
RowsAt(s, keep, i) ==
    IF i > Len(s) THEN <<>>
    ELSE (IF i \in keep THEN <<s[i]>> ELSE <<>>) \o RowsAt(s, keep, i + 1)

\* concat_ds.split(by='pathological')['False']: the datasets that are not
\* pathological, in their order; KeyError when there is none.
SplitHealthy(ds) ==
    LET keep == {i \in 1..Len(ds) : ~ds[i].pathological}
    IN  IF keep = {} THEN Raise(Error("KeyError", "'False'"))
        ELSE Ok(RowsAt(ds, keep, 1))

\* description.groupby(['subject', 'session'])['segment'].apply(list)
\* .apply(len).unique(): the distinct sizes of the (subject, session) groups.
NSegmentsPerSession(rows) ==
    {Cardinality({j \in 1..Len(rows) :
                     /\ rows[j].subject = rows[i].subject
                     /\ rows[j].session = rows[i].session})
        : i \in 1..Len(rows)}

WithSegment(d, segment) == [d EXCEPT !.segment = segment]

WithSession(d, session) == [d EXCEPT !.session = session]

\* Lines 380-387.  `unique() != np.array([1])` is an array with one boolean
\* per distinct group size: `if` takes the boolean of an array of one, and
\* raises ValueError ("The truth value of an array with more than one
\* element is ambiguous") for an array of two or more.
ConcatSplitFiles(rows) ==
    LET sizes == NSegmentsPerSession(rows)
    IN  IF Cardinality(sizes) > 1
        THEN Raise(Error("ValueError", "truth value of an array is ambiguous"))
        ELSE IF sizes # {1}
        THEN Raise(Error("NotImplementedError",
                         "Concatenation of split files is not implemented yet."))
        ELSE Ok([i \in 1..Len(rows) |->
                    WithSegment(rows[i], PyStr(<<"0", "0", "1">>))])

\* A reindexing that numbers the rows of the table without grouping them by
\* subject.
ResetSessionIndicesUngrouped(rows) ==
    [i \in 1..Len(rows) |-> WithSession(rows[i], i)]

\* Lines 389-391: groupby('subject')['session'].transform(lambda x:
\* np.arange(len(x)) + 1): the n-th row of a subject gets session n.
ResetSessionIndices(rows) ==
    [i \in 1..Len(rows) |->
        WithSession(rows[i],
                    Cardinality({j \in 1..i :
                                    rows[j].subject = rows[i].subject}))]

\* The table of the datasets before the healthy ones are split off.
ConvertPrepareUnsplit(ds, healthy_only, reset_indices, concat_files) ==
    LET split == IF healthy_only THEN SplitHealthy(ds) ELSE Ok(ds)
    IN  IF ~split.ok THEN Raise(split.err)
        ELSE Ok([concat_ds |-> split.value, description |-> ds])

\* Lines 376-392 of convert_tuab_to_bids: the datasets and the table the
\* loop runs over, or the exception.
ConvertPrepare(ds, healthy_only, reset_session_indices, concat_split_files) ==
    LET split == IF healthy_only THEN SplitHealthy(ds) ELSE Ok(ds)
    IN  IF ~split.ok THEN Raise(split.err)
        ELSE LET concat == IF concat_split_files
                           THEN ConcatSplitFiles(split.value)
                           ELSE Ok(split.value)
             IN  IF ~concat.ok THEN Raise(concat.err)
                 ELSE Ok([concat_ds |-> split.value,
                          description |->
                              IF reset_session_indices
                              THEN ResetSessionIndices(concat.value)
                              ELSE concat.value])

\* convert_tuab_to_bids(concat_ds, ...) up to its loop.
ConvertBegin(healthy_only, reset_session_indices, concat_split_files) ==
    /\ pc = "coded"
    /\ opts' = [healthy_only |-> healthy_only,
                reset_session_indices |-> reset_session_indices,
                concat_split_files |-> concat_split_files]
    /\ LET made == ConvertPrepare(datasets, healthy_only,
                                  reset_session_indices, concat_split_files)
       IN  IF ~made.ok
           THEN /\ pc' = "failed"
                /\ err' = made.err
                /\ UNCHANGED <<datasets, description>>
           ELSE /\ pc' = "converting"
                /\ err' = err
                /\ datasets' = made.value.concat_ds
                /\ description' = made.value.description
    /\ UNCHANGED <<files, recording_ids, index, df_info, written, csv>>
    /\ UNCHANGED rename_vars
    /\ UNCHANGED pipeline_vars

\* One turn of the loop of lines 394-398: the next recording is converted
\* and its row appended; an exception leaves the loop and the function.
ConvertRecording ==
    /\ pc = "converting"
    /\ Len(df_info) < Len(description)
    /\ LET i    == Len(df_info) + 1
           desc == description[i]
       IN  IF datasets[i].path # desc.path
           THEN /\ pc' = "failed"
                /\ err' = Error("AssertionError", "convert_tuab_to_bids")
                /\ UNCHANGED <<df_info, written>>
           ELSE LET made == ConvertTuhRecordingToBids(desc)
                IN  IF ~made.ok
                    THEN /\ pc' = "failed"
                         /\ err' = made.err
                         /\ UNCHANGED <<df_info, written>>
                    ELSE /\ pc' = pc
                         /\ err' = err
                         /\ df_info' = Append(df_info, made.value.info)
                         /\ written' = Append(written, made.value.bids_path)
    /\ UNCHANGED <<files, recording_ids, index, datasets, opts, description,
                   csv>>
    /\ UNCHANGED rename_vars
    /\ UNCHANGED pipeline_vars

\* Lines 399-400: the table is written once the loop has ended.
SaveCsv ==
    /\ pc = "converting"
    /\ Len(df_info) = Len(description)
    /\ csv' = [rows |-> df_info]
    /\ pc' = "done"
    /\ UNCHANGED <<files, recording_ids, index, datasets, opts, description,
                   df_info, written, err>>
    /\ UNCHANGED rename_vars
    /\ UNCHANGED pipeline_vars

-----------------------------------------------------------------------------
(* rename_tuh_channels.                                                    *)

NotRenamed == [none |-> TRUE]

\* The list `exclude`.
Exclude == {<<"L", "O", "C">>, <<"R", "O", "C">>, <<"E", "K", "G", "1">>}

\* Lines 275-276: the prefix and the suffix go, then the rules apply.
ApplyRules(name) ==
    Replace(Replace(Replace(Replace(name, <<"E", "E", "G", " ">>, <<>>),
                            <<"-", "R", "E", "F">>, <<>>),
                    <<"F", "P">>, <<"F", "p">>),
            <<"Z">>, <<"z">>)

\* Lines 274-278: `out` before the exclusion list is looked at.
Normalized(name) ==
    IF Contains(name, <<"E", "E", "G">>) THEN ApplyRules(name) ELSE name

ExcludedOr(name, out) == IF out \in Exclude THEN name ELSE out

\* rename_tuh_channels(ch_name).
rename_tuh_channels(name) == ExcludedOr(name, Normalized(name))

\* A call of rename_tuh_channels.
Rename ==
    /\ pc = "rename"
    /\ ch_out = NotRenamed
    /\ ch_out' = [name |-> rename_tuh_channels(ch_name)]
    /\ UNCHANGED ch_name
    /\ UNCHANGED flow_vars
    /\ UNCHANGED pipeline_vars

-----------------------------------------------------------------------------
(* The processing notebook: the subjects, the pipelines of its dispatch    *)
(* cells and the tasks they submit; and the submission cell of the         *)
(* benchmark notebook.                                                     *)

SubPrefix == <<"s", "u", "b", "-">>

\* Line 514: read_csv reads the participant_id column as integers, which
\* are padded again and prefixed.
WithParticipantId(row) ==
    [row EXCEPT !.participant_id =
        SubPrefix \o Zfill(StrOfNat(IntOfStr(row.participant_id)), 4)]

\* participants.tsv, which write_raw_bids keeps: one row for every subject
\* written.
ParticipantsTsv(paths) ==
    {SubPrefix \o paths[i].subject : i \in 1..Len(paths)}

\* Line 515: the rows with session 1, merged with participants.tsv on the
\* participant_id.
MergedRows(rows, tsv) ==
    RowsAt(rows,
           {i \in 1..Len(rows) :
               rows[i].session = 1 /\ rows[i].participant_id \in tsv},
           1)

\* Lines 516-517: the rows that are not pathological and not of a bad
\* subject.
KeptRows(rows) ==
    RowsAt(rows,
           {i \in 1..Len(rows) :
               ~rows[i].pathological
               /\ rows[i].participant_id \notin
                      {SubPrefix \o <<"0", "3", "8", "8">>,
                       SubPrefix \o <<"0", "7", "6", "6">>,
                       SubPrefix \o <<"2", "2", "8", "9">>}},
           1)

\* Lines 510-519: the Series `subjects`.
SubjectsOf(rows, paths) ==
    LET kept == KeptRows(MergedRows([i \in 1..Len(rows) |->
                                        WithParticipantId(rows[i])],
                                    ParticipantsTsv(paths)))
    IN  [i \in 1..Len(kept) |-> kept[i].participant_id]

\* The cell that loads the participants, run when participants_extra.csv
\* is there.
LoadSubjects ==
    /\ pc = "done"
    /\ csv # NoCsv
    /\ subjects' = SubjectsOf(csv.rows, written)
    /\ pc' = "process"
    /\ UNCHANGED <<files, recording_ids, index, datasets, opts, description,
                   df_info, written, csv, err>>
    /\ UNCHANGED <<cells, dispatched, tasks, outputs>>
    /\ UNCHANGED rename_vars

\* The dispatch cells of the processing notebook, named by their output
\* directories, and the submission cell of the benchmark notebook.
PipelineCells ==
    {"preproc_minimal", "preproc_autoreject", "preproc_autoreject_ica",
     "ica_artifact_subspace", "ica_ocular_artifact_subspace",
     "ica_muscle_artifact_subspace", "ica_other_artifact_subspace"}

BenchmarkCell == "benchmark"

\* The stages of the pipelines.
Minimal ==
    <<"read_raw_bids_root", "crop", "filter", "resample", "make_epochs",
      "select_channels", "set_eeg_reference", "save_epochs",
      "compute_meeglet_features", "save_features">>

Autoreject ==
    <<"read_raw_bids_root", "crop", "filter", "resample", "make_epochs",
      "select_channels", "compute_auto_reject", "set_eeg_reference",
      "save_epochs", "compute_meeglet_features", "save_features">>

AutorejectIca ==
    <<"read_raw_bids_root", "crop", "filter", "resample", "make_epochs",
      "select_channels", "compute_auto_reject", "apply_ica",
      "set_eeg_reference", "save_epochs", "compute_meeglet_features",
      "save_features">>

\* compute_benchmark as stages: the cross-validation, then the two files.
ComputeBenchmark == <<"run_benchmark_cv", "results_to_csv", "ys_to_csv">>

\* A pipeline that runs its stages from the last to the first.
RECURSIVE PipelineReversed(_)
PipelineReversed(fs) ==
    IF fs = <<>> THEN <<>> ELSE Append(PipelineReversed(Tail(fs)), Head(fs))

\* Pipeline([...]): the stages are composed in the order of the list.
Pipeline(fs) == fs

\* The pipeline of a cell.
PipelineOf(cell) ==
    CASE cell = "preproc_minimal" -> Pipeline(Minimal)
      [] cell = "preproc_autoreject" -> Pipeline(Autoreject)
      [] cell = BenchmarkCell -> ComputeBenchmark
      [] OTHER -> Pipeline(AutorejectIca)

\* One output directory for every cell.
SharedOutputDir(cell) == <<"deriv_root">>

\* output_dir of a cell.
OutputDir(cell) == <<"deriv_root", cell>>

\* The ic_rejection_criterion a cell passes, or None.
IcRejectionCriterion(cell) ==
    CASE cell = "ica_artifact_subspace" -> [str |-> "keep_artifacts"]
      [] cell = "ica_ocular_artifact_subspace" ->
             [str |-> "keep_ocular_artifacts"]
      [] cell = "ica_muscle_artifact_subspace" ->
             [str |-> "keep_muscle_artifacts"]
      [] cell = "ica_other_artifact_subspace" ->
             [str |-> "keep_other_artifacts"]
      [] OTHER -> None

\* make_tuab_config(sub, deriv_root=output_dir[, ic_rejection_criterion]):
\* the config holds its arguments.
make_tuab_config(sub, deriv_root, ic_rejection_criterion) ==
    [bids_root |-> "bids_root", session |-> "001", run |-> "001",
     subject |-> sub, deriv_root |-> deriv_root,
     ic_rejection_criterion |-> ic_rejection_criterion]

\* The benchmarks of the benchmark notebook, two of them.
Benchmarks ==
    <<[dataset |-> "TUAB", processing |-> "preproc_minimal",
       target |-> "age", features |-> "meeglet", model |-> "riemann"],
      [dataset |-> "TUAB", processing |-> "preproc_minimal",
       target |-> "sex", features |-> "meeglet", model |-> "riemann"]>>

\* The configs a cell maps its pipeline over; for the benchmark cell, the
\* arguments of compute_benchmark.
ConfigsOf(cell, subs) ==
    IF cell = BenchmarkCell
    THEN [i \in 1..Len(Benchmarks) |->
             [benchmark |-> Benchmarks[i], output_root |-> "results_path"]]
    ELSE [i \in 1..Len(subs) |->
             make_tuab_config(subs[i], OutputDir(cell),
                              IcRejectionCriterion(cell))]

\* A submitted task: its config, its stages, the stage that raises for this
\* config ("none" when none does), the number of stages run, the value the
\* next stage receives (the config and the stages that have returned it)
\* and the values the stages have received so far.
Task(cell, config, raises) ==
    [cell |-> cell, config |-> config, stages |-> PipelineOf(cell),
     raises |-> raises, done |-> 0, status |-> "pending",
     value |-> [config |-> config, returned_by |-> <<>>],
     received |-> <<>>]

\* The stages that write a file.
SaveStages == {"save_epochs", "save_features", "results_to_csv", "ys_to_csv"}

\* compute_benchmark: results.csv and ys.csv under save_dir.
BenchmarkOutputPath(config, stage) ==
    <<config.output_root, config.benchmark.dataset,
      config.benchmark.processing, config.benchmark.target,
      config.benchmark.features, config.benchmark.model, stage>>

\* The file a save stage of a pipeline writes: under the output directory,
\* the subject, the session and the run of its config.
PipelineOutputPath(config, stage) ==
    <<config.deriv_root, config.subject, config.session, config.run, stage>>

OutputPath(config, stage) ==
    IF stage \in {"results_to_csv", "ys_to_csv"}
    THEN BenchmarkOutputPath(config, stage)
    ELSE PipelineOutputPath(config, stage)

\* The stage has received the value of the task.
Received(task) == [task EXCEPT !.received = Append(@, task.value)]

\* The stage has returned: a new value, layered on the one it received.
Returned(task, stage) ==
    [Received(task) EXCEPT
        !.done = @ + 1,
        !.status = IF task.done + 1 = Len(task.stages)
                   THEN "finished" ELSE "running",
        !.value = [config |-> task.value.config,
                   returned_by |-> Append(task.value.returned_by, stage)]]

\* A failure that ends every task that has not finished.
AfterFailureCancelSiblings(ts, t) ==
    [i \in 1..Len(ts) |->
        IF i = t THEN [Received(ts[i]) EXCEPT !.status = "erred"]
        ELSE IF ts[i].status \in {"pending", "running"}
             THEN [ts[i] EXCEPT !.status = "cancelled"]
             ELSE ts[i]]

\* fire_and_forget(client.map(pipeline, configs)): the tasks are futures of
\* their own; the exception of a task is kept in its future and ends that
\* task.
AfterFailure(ts, t) ==
    [ts EXCEPT ![t] = [Received(@) EXCEPT !.status = "erred"]]

\* A dispatch cell: a task for every config is submitted, and the cell
\* returns.  `raising` holds the stages that raise for some configs.
DispatchCell(cell, raising) ==
    /\ pc = "process"
    /\ cell \in cells \ dispatched
    /\ LET configs == ConfigsOf(cell, subjects)
       IN  \E raises \in [1..Len(configs) ->
                             {"none"} \cup (raising \cap Range(PipelineOf(cell)))] :
               tasks' = tasks \o [i \in 1..Len(configs) |->
                                     Task(cell, configs[i], raises[i])]
    /\ dispatched' = dispatched \cup {cell}
    /\ UNCHANGED <<subjects, cells, outputs>>
    /\ UNCHANGED flow_vars
    /\ UNCHANGED rename_vars

\* A worker runs the next stage of a task.
RunStage(t) ==
    /\ pc = "process"
    /\ t \in 1..Len(tasks)
    /\ tasks[t].status \in {"pending", "running"}
    /\ LET stage == tasks[t].stages[tasks[t].done + 1]
       IN  IF stage = tasks[t].raises
           THEN /\ tasks' = AfterFailure(tasks, t)
                /\ UNCHANGED outputs
           ELSE /\ tasks' = [tasks EXCEPT ![t] = Returned(@, stage)]
                /\ outputs' =
                       IF stage \in SaveStages
                       THEN outputs \cup
                            {[path |-> OutputPath(tasks[t].config, stage),
                              by |-> t]}
                       ELSE outputs
    /\ UNCHANGED <<subjects, cells, dispatched>>
    /\ UNCHANGED flow_vars
    /\ UNCHANGED rename_vars

-----------------------------------------------------------------------------
(* The corpora of the specifications.                                      *)

\* Subject ids of file names.
Subjects == {<<"a", "a">>, <<"a", "b">>}

\* Session numbers of file names: a subject's sessions may start after 1
\* and have a gap.
Sessions == {1, 3}

\* Segment numbers of file names.
Segments == {0, 1}

\* Directories of the source tree.
ArDir == <<"train", "/", "normal", "/", "01_tcp_ar">>

LeDir == <<"eval", "/", "abnormal", "/", "01_tcp_le">>

XxDir == <<"train", "/", "normal", "/", "01_tcp_xx">>

\* A file: its path and what its header holds (the date of the recording,
\* the age and the gender).
File(dir, stem, date, age, gender) ==
    [path |-> [dir |-> dir, stem |-> stem],
     date |-> date, age |-> age, gender |-> gender]

\* A file with the patient identification of its header.
HeaderFile(dir, stem, date, patient_id) ==
    [path |-> [dir |-> dir, stem |-> stem], date |-> date,
     age |-> ParseAgeAndGenderFromEdfHeader(patient_id).age,
     gender |-> ParseAgeAndGenderFromEdfHeader(patient_id).gender,
     patient_id |-> patient_id]

FilesIn(dir, stems, date, age, gender) ==
    {File(dir, stem, date, age, gender) : stem \in stems}

Stems(subject_ids, sessions, segments) ==
    {Stem(sub, ses, seg) :
        sub \in subject_ids, ses \in sessions, seg \in segments}

\* glob.glob lists a directory after the other, and the files of a
\* directory in an order of the file system: here, by falling name.
GlobBefore(f, g) ==
    IF f.path.dir # g.path.dir
    THEN StrLess(CharsOf(f.path.dir), CharsOf(g.path.dir))
    ELSE StrLess(FileName(g.path), FileName(f.path))

InGlobOrder(c) == \A i \in 1..(Len(c) - 1) : GlobBefore(c[i], c[i + 1])

\* The files a corpus of Spec is drawn from.
CorpusFiles ==
    FilesIn(ArDir, Stems(Subjects, Sessions, Segments), <<2012, 3, 5>>, 34, "M")
    \cup FilesIn(LeDir, Stems(Subjects, Sessions, Segments),
                 <<2011, 12, 30>>, 60, "F")
    \cup FilesIn(XxDir, Stems(Subjects, Sessions, Segments),
                 <<2012, 3, 5>>, 34, "M")

\* The corpora of Spec: up to MaxFiles files, in glob order.
Corpora ==
    {c \in DistinctSeqsOf(CorpusFiles, 1, MaxFiles) : InGlobOrder(c)}

-----------------------------------------------------------------------------
(* Spec: run_tuab_bidsification on a corpus.                               *)

NothingDispatched ==
    /\ dispatched = {}
    /\ tasks = <<>>
    /\ outputs = {}

InitConversionAt(fs, at) ==
    /\ files = fs
    /\ pc = at
    /\ recording_ids = None
    /\ index = <<>>
    /\ datasets = <<>>
    /\ opts = NoOpts
    /\ description = <<>>
    /\ df_info = <<>>
    /\ written = <<>>
    /\ csv = NoCsv
    /\ err = NoError
    /\ ch_name = <<>>
    /\ ch_out = NotRenamed

InitFlow(fs) ==
    /\ InitConversionAt(fs, "start")
    /\ subjects = <<>>
    /\ cells = {}
    /\ NothingDispatched

Init == \E fs \in Corpora : InitFlow(fs)

\* TUHAbnormal(tuab_source_dir, recording_ids=None, n_jobs=-1).
LoadAll == TUHAbnormalInit(None)

\* convert_tuab_to_bids is called with any keyword arguments.
Convert ==
    \E healthy_only, reset_session_indices, concat_split_files \in BOOLEAN :
        ConvertBegin(healthy_only, reset_session_indices, concat_split_files)

\* Line 409: convert_tuab_to_bids with its default keyword arguments.
ConvertDefault == ConvertBegin(FALSE, TRUE, TRUE)

Next ==
    \/ LoadAll
    \/ SetSubjectCodes
    \/ Convert
    \/ ConvertRecording
    \/ SaveCsv

Spec == Init /\ [][Next]_vars

-----------------------------------------------------------------------------
(* SpecIndex: the index of a source tree whose files glob lists in any     *)
(* order, with files that tie on the sort key and file names that do not   *)
(* have three parts.                                                       *)

\* File names with two and with four parts.
MalformedStems ==
    {<<<<"a", "a">>, NumberedPart("s", 1)>>,
     <<<<"a", "a">>, NumberedPart("s", 1), NumberedPart("t", 0), <<"x">>>>}

IndexFiles ==
    FilesIn(ArDir, Stems(Subjects, Sessions, {0}), <<2012, 3, 5>>, 34, "M")
    \cup FilesIn(LeDir, Stems(Subjects, Sessions, {0}), <<2012, 3, 5>>, 60, "F")
    \cup FilesIn(XxDir, Stems(Subjects, Sessions, {0}),
                 <<2011, 12, 30>>, 34, "M")
    \cup FilesIn(ArDir, MalformedStems, <<2012, 3, 5>>, 34, "M")

InitIndex == \E fs \in DistinctSeqsOf(IndexFiles, 1, MaxFiles) : InitFlow(fs)

SpecIndex == InitIndex /\ [][LoadAll]_vars

-----------------------------------------------------------------------------
(* SpecSubset: TUHAbnormal with any recording_ids.                         *)

SubsetFiles ==
    FilesIn(ArDir, Stems(Subjects, Sessions, {0}), <<2012, 3, 5>>, 34, "M")
    \cup FilesIn(LeDir, Stems({<<"a", "a">>}, {1}, {0}), <<2012, 3, 5>>, 60, "F")

\* recording_ids: None, or a list of positions of the index without a
\* repeated position.
RecordingIdChoices(n) ==
    {None} \cup {[list |-> l] : l \in DistinctSeqsOf(0..(n - 1), 1, n)}

InitSubset ==
    \E fs \in DistinctSeqsOf(SubsetFiles, 1, MaxSubsetFiles) : InitFlow(fs)

LoadSome == \E ids \in RecordingIdChoices(Len(files)) : TUHAbnormalInit(ids)

SpecSubset == InitSubset /\ [][LoadSome]_vars

-----------------------------------------------------------------------------
(* SpecAlign: TUHAbnormal with n_jobs=1 or with the workers of joblib, on  *)
(* the files of SpecSubset in any order, then convert_tuab_to_bids with    *)
(* any keyword arguments.                                                  *)

NextAlign ==
    \/ LoadAll
    \/ LoadParallel
    \/ SetSubjectCodes
    \/ Convert
    \/ ConvertRecording
    \/ SaveCsv

SpecAlign == InitSubset /\ [][NextAlign]_vars

-----------------------------------------------------------------------------
(* SpecSex: run_tuab_bidsification on a corpus of one recording whose      *)
(* patient identification is any sequence of the pieces HeaderPieces.      *)

InitSex ==
    \E patient_id \in SeqsOf({" ", "F", "M", "|", "a", "Age:34"},
                             0, MaxHeaderPieces) :
        InitFlow(<<HeaderFile(ArDir, Stem(<<"a", "a">>, 1, 0),
                              <<2012, 3, 5>>, patient_id)>>)

NextSex ==
    \/ LoadAll
    \/ SetSubjectCodes
    \/ ConvertDefault
    \/ ConvertRecording
    \/ SaveCsv

SpecSex == InitSex /\ [][NextSex]_vars

-----------------------------------------------------------------------------
(* SpecRef: run_tuab_bidsification on a corpus of one recording whose      *)
(* reference directory is any sequence of the pieces RefPieces.            *)

RefPieces == {"_tcp_", "ar", "le", "xx", "/", "_"}

RefDirs ==
    {<<"train", "/", "normal", "/">> \o pieces :
        pieces \in SeqsOf(RefPieces, 0, MaxPathPieces)}

InitRef ==
    \E dir \in RefDirs :
        InitFlow(<<File(dir, Stem(<<"a", "a">>, 1, 0), <<2012, 3, 5>>, 34, "M")>>)

SpecRef == InitRef /\ [][Next]_vars

-----------------------------------------------------------------------------
(* SpecLabel: TUHAbnormal on a source tree of one file whose directory is  *)
(* any sequence of the pieces LabelPieces.                                 *)

LabelPieces == {"train", "eval", "normal", "abnormal", "01_tcp_ar", "/"}

LabelDirs == SeqsOf(LabelPieces, 0, MaxPathPieces)

InitLabel ==
    \E dir \in LabelDirs :
        InitFlow(<<File(dir, Stem(<<"a", "a">>, 1, 0), <<2012, 3, 5>>, 34, "M")>>)

SpecLabel == InitLabel /\ [][LoadAll]_vars

-----------------------------------------------------------------------------
(* SpecBirthday: run_tuab_bidsification on a corpus of one recording with  *)
(* any date of RecordingDates and any age of Ages in its header.           *)

\* A leap year and the year before it.
RecordingYears == {2011, 2012}

\* The first, a middle and the last day of every month.
RecordingDates ==
    {date \in RecordingYears \X (1..12) \X (1..31) :
        date[3] \in {1, 15, DaysInMonth(date[1], date[2])}}

\* Ages that give birth years with and without a 29th of February, 1900
\* among them.
Ages == (0..MaxAge) \cup {34, 112}

InitBirthday ==
    \E date \in RecordingDates, age \in Ages :
        InitFlow(<<File(ArDir, Stem(<<"a", "a">>, 1, 0), date, age, "M")>>)

SpecBirthday == InitBirthday /\ [][Next]_vars

-----------------------------------------------------------------------------
(* SpecDispatch: run_tuab_bidsification on a corpus, then the processing   *)
(* notebook up to its dispatch cells, run in any order.                    *)

InitDispatch ==
    \E fs \in {c \in DistinctSeqsOf(
                       FilesIn(ArDir, Stems(Subjects, Sessions, Segments),
                               <<2012, 3, 5>>, 34, "M")
                       \cup FilesIn(LeDir, Stems(Subjects, Sessions, {0}),
                                    <<2011, 12, 30>>, 60, "F"),
                       1, MaxFiles) :
                   InGlobOrder(c)} :
        /\ InitConversionAt(fs, "start")
        /\ subjects = <<>>
        /\ cells = PipelineCells
        /\ NothingDispatched

\* The dispatch cells in the order of the notebook.
CellOrder ==
    <<"preproc_minimal", "preproc_autoreject", "preproc_autoreject_ica",
      "ica_artifact_subspace", "ica_ocular_artifact_subspace",
      "ica_muscle_artifact_subspace", "ica_other_artifact_subspace">>

\* The next dispatch cell of the processing notebook, run from top to
\* bottom, for configs whose stages raise nothing.
DispatchPipelines ==
    \E k \in 1..Len(CellOrder) :
        /\ \A i \in 1..(k - 1) : CellOrder[i] \in dispatched
        /\ DispatchCell(CellOrder[k], {})

NextDispatch ==
    \/ LoadAll
    \/ SetSubjectCodes
    \/ ConvertDefault
    \/ ConvertRecording
    \/ SaveCsv
    \/ LoadSubjects
    \/ DispatchPipelines

SpecDispatch == InitDispatch /\ [][NextDispatch]_vars

-----------------------------------------------------------------------------
(* SpecScatter: dispatch cells run on a cluster, for up to MaxScatterTasks *)
(* tasks whose stages run in any interleaving.                             *)

\* `subjects` for n subjects: sub-0000, sub-0001, ...
SubjectList(n) ==
    [i \in 1..n |-> SubPrefix \o Zfill(StrOfNat(i - 1), 4)]

\* The processing notebook with `subjects` loaded.
InitProcess(subs, cs) ==
    /\ InitConversionAt(<<>>, "process")
    /\ subjects = subs
    /\ cells = cs
    /\ NothingDispatched

\* The stages that raise for some configs: the first and the last stage of
\* a pipeline; the cross-validation and the second file of a benchmark.
RaisingInScatter ==
    {"read_raw_bids_root", "save_features", "run_benchmark_cv", "ys_to_csv"}

\* The cells of SpecScatter: a pipeline without and one with ICA, and the
\* benchmarks.
ScatterCells == {"preproc_minimal", "preproc_autoreject_ica", BenchmarkCell}

InitScatter ==
    \E n \in 1..MaxScatterTasks,
       cs \in SUBSET ScatterCells :
        /\ cs # {}
        /\ n * Cardinality(cs \ {BenchmarkCell})
           + (IF BenchmarkCell \in cs THEN Len(Benchmarks) ELSE 0)
               <= MaxScatterTasks
        /\ InitProcess(SubjectList(n), cs)

NextScatter ==
    \/ \E cell \in ScatterCells : DispatchCell(cell, RaisingInScatter)
    \/ \E t \in 1..Len(tasks) : RunStage(t)

SpecScatter == InitScatter /\ [][NextScatter]_vars

-----------------------------------------------------------------------------
(* SpecStages: one dispatch cell of the processing notebook for two        *)
(* subjects, any stage raising for any of the two configs.                 *)

InitStages ==
    \E cell \in PipelineCells :
        /\ InitProcess(SubjectList(2), {cell})

NextStages ==
    \/ \E cell \in PipelineCells : DispatchCell(cell, Range(AutorejectIca))
    \/ \E t \in 1..Len(tasks) : RunStage(t)

SpecStages == InitStages /\ [][NextStages]_vars

-----------------------------------------------------------------------------
(* SpecRename: rename_tuh_channels on any channel name made of the pieces  *)
(* NamePieces.                                                             *)

NamePieces ==
    {"EEG ", "EEG", "-REF", "FP", "Z", "LOC", "EKG1", "ROC", "E", "EG ",
     "C", "1", " "}

ChannelNames ==
    {CharsOf(pieces) : pieces \in SeqsOf(NamePieces, 1, MaxNamePieces)}

InitRename ==
    /\ ch_name \in ChannelNames
    /\ ch_out = NotRenamed
    /\ files = <<>>
    /\ pc = "rename"
    /\ recording_ids = None
    /\ index = <<>>
    /\ datasets = <<>>
    /\ opts = NoOpts
    /\ description = <<>>
    /\ df_info = <<>>
    /\ written = <<>>
    /\ csv = NoCsv
    /\ err = NoError
    /\ subjects = <<>>
    /\ cells = {}
    /\ NothingDispatched

SpecRename == InitRename /\ [][Rename]_vars

-----------------------------------------------------------------------------
(* The claims.                                                             *)

\* The rows of the table with the subject of row i.
SameSubject(rows, i) ==
    {j \in 1..Len(rows) : rows[j].subject = rows[i].subject}

\* convert_tuab_to_bids has built its table and entered its loop.
InLoop == opts # NoOpts /\ description # <<>>

\* C1: with reset_session_indices=True the sessions of the recordings of a
\* subject are exactly 1..k, rising with the position in the index, which
\* is the order of the sessions of the file names; and every recording is
\* written under its session of 1..k.
C1_SessionsContiguous ==
    (InLoop /\ opts.reset_session_indices) =>
        /\ \A i \in 1..Len(description) :
              /\ {description[j].session : j \in SameSubject(description, i)}
                     = 1..Cardinality(SameSubject(description, i))
              /\ \A j \in SameSubject(description, i) :
                     j < i => /\ description[j].session < description[i].session
                              /\ datasets[j].session <= datasets[i].session
        /\ \A i \in 1..Len(written) :
              IntOfStr(written[i].session) = description[i].session

\* C1 witness: a subject with the sessions 1 and 3 has been written under
\* the sessions 1 and 2.
C1_Witness ==
    /\ pc = "done"
    /\ opts.reset_session_indices
    /\ \E i, j \in 1..Len(description) :
          /\ i < j
          /\ description[i].subject = description[j].subject
          /\ datasets[i].session = 1 /\ datasets[j].session = 3
          /\ written[i].session = <<"0", "0", "1">>
          /\ written[j].session = <<"0", "0", "2">>

\* The rows convert_tuab_to_bids groups: those of the datasets, the healthy
\* ones for healthy_only=True.
GroupedRows ==
    IF opts.healthy_only
    THEN RowsAt(datasets, {i \in 1..Len(datasets) : ~datasets[i].pathological}, 1)
    ELSE datasets

\* C2 as claimed: with concat_split_files=True, a (subject, session) group
\* of more than one segment makes convert_tuab_to_bids raise
\* NotImplementedError before any recording is converted or written,
\* whatever the sizes of the other groups.
C2_RefusesSplitFiles ==
    (/\ opts # NoOpts
     /\ opts.concat_split_files
     /\ \E i, j \in 1..Len(GroupedRows) :
           /\ GroupedRows[i].subject = GroupedRows[j].subject
           /\ GroupedRows[i].session = GroupedRows[j].session
           /\ GroupedRows[i].segment # GroupedRows[j].segment) =>
        /\ pc = "failed"
        /\ err.type = "NotImplementedError"
        /\ df_info = <<>>
        /\ written = <<>>

\* The run has ended after entering the loop of convert_tuab_to_bids.
LoopEnded == InLoop /\ pc \in {"done", "failed"}

\* The positions of the table whose recording converts.
Convertible ==
    {i \in 1..Len(description) : ConvertTuhRecordingToBids(description[i]).ok}

\* C3 as claimed: a recording whose conversion fails is left out, every
\* other recording is converted, and the summary table holds the rows of
\* the recordings that converted.
C3_FailureIsolated ==
    LoopEnded =>
        /\ csv # NoCsv
        /\ \A i \in Convertible : BidsPathOf(description[i]) \in Range(written)
        /\ Len(df_info) = Cardinality(Convertible)

\* C4 as claimed: the session of a summary row is the session of the file
\* name of its recording.
C4_RowKeepsOriginalSession ==
    \A i \in 1..Len(df_info) : df_info[i].session = datasets[i].session

\* A file whose name has three parts.
WellFormed(file) == Len(file.path.stem) = 3

\* C5 as claimed: a file whose name does not have three parts fails alone:
\* it is reported, and every other file is in the index.
C5_MalformedFailsAlone ==
    pc # "start" =>
        /\ \A f \in Range(files) :
              WellFormed(f) => \E i \in 1..Len(index) : index[i].path = f.path
        /\ (\E f \in Range(files) : ~WellFormed(f)) => err # NoError

\* Two files with the same subject, session, segment and date.
SameChronologicalKey(f, g) ==
    /\ f.path.stem = g.path.stem
    /\ f.date = g.date

\* C6 as claimed: two different files with the same chronological key make
\* indexing raise MalformedIdentity.
C6_DuplicateKeyRaises ==
    (/\ pc # "start"
     /\ \A f \in Range(files) : WellFormed(f)
     /\ \E f, g \in Range(files) : f # g /\ SameChronologicalKey(f, g)) =>
        /\ pc = "failed"
        /\ err.type = "MalformedIdentity"

\* The orderings of a list.
Orderings(fs) == DistinctSeqsOf(Range(fs), Len(fs), Len(fs))

\* C7 as claimed: the index is sorted by the key, rows that tie on the key
\* are in the order of their paths, and the index is the same for every
\* order of the list of files.
C7_IndexIndependentOfInputOrder ==
    pc = "constructed" =>
        /\ \A i \in 1..(Len(index) - 1) :
              /\ ~KeyLess(index[i + 1], index[i])
              /\ ~KeyLess(index[i], index[i + 1]) =>
                     StrLess(PathChars(index[i].path),
                             PathChars(index[i + 1].path))
        /\ \A fs \in Orderings(files) :
              CreateChronologicalDescription(fs).value = index

\* The position in the index of the recording of a dataset.
IndexPosition(d) == CHOOSE i \in 1..Len(index) : index[i].path = d.path

\* The datasets are in the order of the index.
InIndexOrder ==
    \A i, j \in 1..Len(datasets) :
        i < j => IndexPosition(datasets[i]) < IndexPosition(datasets[j])

\* C8 as claimed: whatever recording_ids is, the recordings it keeps are in
\* the order they have in the index.
C8_SubsetKeepsOrder == pc = "constructed" => InIndexOrder

Ascending(l) == \A i \in 1..(Len(l) - 1) : l[i] < l[i + 1]

\* C8 as amended: the i-th recording kept is the one at position
\* recording_ids[i] of the index; so the recordings kept are in the order
\* they have in the index when recording_ids is ascending, and for
\* recording_ids=None all recordings are kept in the order of the index.
C8_SubsetFollowsRecordingIds ==
    pc = "constructed" =>
        IF recording_ids = None
        THEN /\ Len(datasets) = Len(index)
             /\ \A i \in 1..Len(index) : datasets[i].path = index[i].path
        ELSE /\ Len(datasets) = Len(recording_ids.list)
             /\ \A i \in 1..Len(datasets) :
                   datasets[i].path = index[recording_ids.list[i] + 1].path
             /\ Ascending(recording_ids.list) => InIndexOrder

\* C8 witness: the first and the third recording of an index of three are
\* kept.
C8_Witness ==
    /\ pc = "constructed"
    /\ Len(index) = 3
    /\ recording_ids = [list |-> <<0, 2>>]
    /\ Len(datasets) = 2

\* The positions of a str at which _tcp_ and two word characters stand.
TcpOccurrences(s) ==
    {i \in 1..Len(s) :
        /\ MatchAt(s, <<"_", "t", "c", "p", "_">>, i)
        /\ i + 6 <= Len(s)
        /\ IsWordChar(s[i + 5])
        /\ IsWordChar(s[i + 6])}

\* The pattern stands at one position of the path of the first recording,
\* before ar or le.
ReferenceRecognized ==
    LET s == PathChars(description[1].path)
    IN  /\ Cardinality(TcpOccurrences(s)) = 1
        /\ \E i \in TcpOccurrences(s) :
              SubSeq(s, i + 5, i + 6) \in {<<"a", "r">>, <<"l", "e">>}

\* The first recording has been passed to _convert_tuh_recording_to_bids.
FirstConverted == InLoop /\ (pc # "converting" \/ df_info # <<>>)

\* C9: the reference is accepted when the pattern stands at exactly one
\* position of the path, before ar or le; else ValueError is raised and
\* nothing is written for the recording.
C9_ReferenceAccepted ==
    FirstConverted =>
        IF ReferenceRecognized
        THEN err.type # "ValueError" /\ Len(written) >= 1
        ELSE /\ pc = "failed"
             /\ err.type = "ValueError"
             /\ written = <<>>
             /\ df_info = <<>>

\* C9 witness: a path with two matches has been refused.
C9_Witness ==
    /\ FirstConverted
    /\ Cardinality(TcpOccurrences(PathChars(description[1].path))) = 2
    /\ pc = "failed"
    /\ err.type = "ValueError"

\* C10 as claimed: renaming a renamed name changes nothing, and a name whose
\* normalized form is in the exclusion list is returned as it was given.
C10_RenameIdempotent ==
    ch_out # NotRenamed =>
        /\ rename_tuh_channels(ch_out.name) = ch_out.name
        /\ Normalized(ch_name) \in Exclude => ch_out.name = ch_name

\* No two files of the corpus have the same subject, session and segment.
UniqueIdentity ==
    \A f, g \in Range(files) : f # g => f.path.stem # g.path.stem

\* C11: for a corpus in which (subject, session, segment) is unique and
\* keyword arguments with which convert_tuab_to_bids reaches its loop, no
\* two recordings are written to the same BIDSPath, and recordings of two
\* subjects are written under two participant ids.
C11_OutputPathsDistinct ==
    (InLoop /\ UniqueIdentity) =>
        \A i, j \in 1..Len(written) :
            i # j =>
                /\ written[i] # written[j]
                /\ description[i].subject_orig # description[j].subject_orig
                       => written[i].subject # written[j].subject

\* C11 witness: three recordings of two subjects have been written with
\* the sessions of their file names and the one segment '001'.
C11_Witness ==
    /\ pc = "done"
    /\ UniqueIdentity
    /\ ~opts.reset_session_indices
    /\ opts.concat_split_files
    /\ Len(written) = 3
    /\ \E i, j \in 1..3 :
          description[i].subject_orig # description[j].subject_orig

\* The piece is a whole component of the directory: it stands between two
\* separators, or at an end of the directory.
HasSegment(dir, piece) ==
    \E i \in 1..Len(dir) :
        /\ dir[i] = piece
        /\ i = 1 \/ dir[i - 1] = "/"
        /\ i = Len(dir) \/ dir[i + 1] = "/"

\* The directory of the one file of the source tree.
LabelDir == files[1].path.dir

\* C12: a path without a train or eval component, or without a normal or
\* abnormal component, makes the construction fail and no recording gets
\* flags; else train is TRUE exactly for a train component and pathological
\* is TRUE exactly for an abnormal component.
C12_FlagsFromPath ==
    pc # "start" =>
        IF /\ HasSegment(LabelDir, "train") \/ HasSegment(LabelDir, "eval")
           /\ HasSegment(LabelDir, "normal") \/ HasSegment(LabelDir, "abnormal")
        THEN /\ pc = "constructed"
             /\ datasets[1].train = HasSegment(LabelDir, "train")
             /\ datasets[1].pathological = HasSegment(LabelDir, "abnormal")
        ELSE /\ pc = "failed"
             /\ err.type = "AssertionError"
             /\ datasets = <<>>

\* C12 witness: a path that holds train and normal, but not both as whole
\* components, has been refused.
C12_Witness ==
    /\ pc = "failed"
    /\ err.type = "AssertionError"
    /\ "train" \in Range(LabelDir)
    /\ "normal" \in Range(LabelDir)

\* C13 as claimed: a call of convert_tuab_to_bids that has entered its loop
\* ends with the summary table persisted, the table is persisted only when
\* every recording has been through the loop, and it has one row for each
\* recording that was converted and written.
C13_TablePersistedOnce ==
    /\ csv # NoCsv => Len(df_info) = Len(description)
    /\ LoopEnded => /\ csv # NoCsv
                    /\ Len(csv.rows) = Len(written)

\* The age in completed years at a date of someone born on a day.
CompletedYears(birth, date) ==
    date[1] - birth[1]
    - (IF date[2] < birth[2] \/ (date[2] = birth[2] /\ date[3] < birth[3])
       THEN 1 ELSE 0)

\* The number of the day in the proleptic Gregorian calendar.
RECURSIVE DaysBeforeMonth(_, _)
DaysBeforeMonth(year, month) ==
    IF month = 1 THEN 0
    ELSE DaysBeforeMonth(year, month - 1) + DaysInMonth(year, month - 1)

Ordinal(date) ==
    365 * (date[1] - 1) + ((date[1] - 1) \div 4) - ((date[1] - 1) \div 100)
    + ((date[1] - 1) \div 400) + DaysBeforeMonth(date[1], date[2]) + date[3]

-----------------------------------------------------------------------------
(* Scattered tasks.                                                        *)

Runnable(t) == tasks[t].status \in {"pending", "running"}

\* The files task t has written.
OutputsOf(t) == {o.path : o \in {w \in outputs : w.by = t}}

\* The files the save stages of a task write.
ExpectedOutputs(task) ==
    {OutputPath(task.config, stage) :
        stage \in Range(task.stages) \cap SaveStages}

\* C15: in a scatter submission a task fails only at its own raising stage
\* and is never cancelled; whatever the other tasks do, a task whose stages
\* all succeed can always run its next stage, and once it has stopped it
\* has finished and written every output of its save stages; and a cell
\* that has not been dispatched can be dispatched whatever the state of the
\* tasks submitted before.
C15_ScatterFailureIsolated ==
    /\ \A t \in 1..Len(tasks) :
        /\ tasks[t].status # "cancelled"
        /\ (tasks[t].status = "erred") =>
               /\ tasks[t].done < Len(tasks[t].stages)
               /\ tasks[t].raises = tasks[t].stages[tasks[t].done + 1]
        /\ (tasks[t].raises = "none" /\ Runnable(t)) => ENABLED RunStage(t)
        /\ (tasks[t].raises = "none" /\ ~Runnable(t)) =>
               /\ tasks[t].status = "finished"
               /\ ExpectedOutputs(tasks[t]) \subseteq OutputsOf(t)
    /\ \A cell \in cells \ dispatched :
           ENABLED DispatchCell(cell, RaisingInScatter)

\* A task has failed, and a sibling submitted with it has finished and
\* written its outputs.
C15_Witness ==
    \E t, u \in 1..Len(tasks) :
        /\ tasks[t].status = "erred"
        /\ tasks[u].status = "finished"
        /\ tasks[u].cell = tasks[t].cell
        /\ ExpectedOutputs(tasks[u]) # {}
        /\ ExpectedOutputs(tasks[u]) \subseteq OutputsOf(u)

ConfigKey(config) ==
    <<config.deriv_root, config.subject, config.session, config.run>>

\* C16: the (deriv_root, subject, session, run) of the configs dispatched
\* by the pipeline cells are pairwise distinct.
C16_OutputLocationsDistinct ==
    \A i, j \in 1..Len(tasks) :
        i # j => ConfigKey(tasks[i].config) # ConfigKey(tasks[j].config)

\* The seven cells have been dispatched for two subjects.
C16_Witness ==
    /\ dispatched = PipelineCells
    /\ Len(subjects) = 2
    /\ Len(tasks) = 2 * Cardinality(PipelineCells)

\* The list of stages a cell passes to Pipeline.
ListedStages(cell) ==
    CASE cell = "preproc_minimal" -> Minimal
      [] cell = "preproc_autoreject" -> Autoreject
      [] OTHER -> AutorejectIca

\* The files the save stages among the first n listed stages write.
OutputsAfter(task, n) ==
    {OutputPath(task.config, ListedStages(task.cell)[i]) :
        i \in {k \in 1..n : ListedStages(task.cell)[k] \in SaveStages}}

\* C17: the stages of a task run in the order of the list, the i-th stage
\* receiving the config the i-1 stages before it have returned in turn;
\* after a stage has raised no later stage runs and no later save stage
\* writes; and a task fails only at its own raising stage.
C17_StagesInListOrder ==
    \A t \in 1..Len(tasks) :
        LET task == tasks[t]
            listed == ListedStages(task.cell)
        IN  /\ task.value.returned_by = SubSeq(listed, 1, task.done)
            /\ \A i \in 1..Len(task.received) :
                   /\ task.received[i].config = task.config
                   /\ task.received[i].returned_by = SubSeq(listed, 1, i - 1)
            /\ Len(task.received) =
                   IF task.status = "erred" THEN task.done + 1 ELSE task.done
            /\ OutputsOf(t) = OutputsAfter(task, task.done)
            /\ (task.status = "erred") =>
                   /\ task.done < Len(listed)
                   /\ task.raises = listed[task.done + 1]
            /\ task.status # "cancelled"
            /\ (task.raises = "none" /\ ~Runnable(t)) =>
                   task.status = "finished"

\* A task has failed at the stage before save_epochs and has written
\* nothing, and the other task has finished.
C17_Witness ==
    \E t, u \in 1..Len(tasks) :
        /\ tasks[t].status = "erred"
        /\ tasks[t].raises = "set_eeg_reference"
        /\ OutputsOf(t) = {}
        /\ tasks[u].status = "finished"
        /\ Cardinality(OutputsOf(u)) = 2

\* C18: the assertion of the loop of convert_tuab_to_bids never fails: the
\* datasets and the rows of the table the loop runs over are as many, and
\* the i-th dataset has the path of the i-th row.
C18_AlignmentHolds ==
    /\ err.type # "AssertionError"
    /\ InLoop =>
           /\ Len(datasets) = Len(description)
           /\ \A i \in 1..Len(description) :
                  datasets[i].path = description[i].path

\* The loop has run to its end over the healthy recordings of a corpus
\* with a pathological one.
C18_Witness ==
    /\ InLoop
    /\ opts.healthy_only
    /\ Len(description) >= 2
    /\ Len(description) < Len(index)
    /\ Len(df_info) = Len(description)

\* The F and M of a patient identification that stand between two
\* whitespace characters.
SexTokens(patient_id) ==
    {i \in 2..(Len(patient_id) - 1) :
        /\ patient_id[i] \in {"F", "M"}
        /\ patient_id[i - 1] = " "
        /\ patient_id[i + 1] = " "}

\* C19 as claimed: every sex code written is 1 or 2; and a recording whose
\* header does not hold exactly one sex token has the gender 'X', its
\* conversion fails with the KeyError of the sex lookup and no row is
\* recorded for it.
C19_SexCodeFromOneToken ==
    /\ \A i \in 1..Len(df_info) : df_info[i].sex \in {1, 2}
    /\ \A i \in 1..Len(datasets) :
           Cardinality(SexTokens(FileAt(files, datasets[i].path).patient_id)) # 1 =>
               /\ datasets[i].gender = "X"
               /\ LoopEnded => (err.type = "KeyError" /\ df_info = <<>>)

====
